---- MODULE Spec2Model ----
(***************************************************************************)
(* A model of etl_components/connections.py: the dialect descriptors and   *)
(* get_sql_format, the process-wide config mapping, and the two scoped     *)
(* connection wrappers SQLiteCursor and PostgresCursor together with the   *)
(* backend connections they drive (connect, cursor, commit, rollback,      *)
(* close) and the stores behind those connections.                         *)
(***************************************************************************)
EXTENDS Integers, Sequences, FiniteSets, TLC

\* ------------------------------------------------------------------ bounds
NumWrappers == 2   \* wrapper instances that may be constructed
MaxHandles == 3    \* handles resolved by one run of get_sql_format calls

W == 1..NumWrappers

\* Python's None.
None == [py |-> "None"]

\* ------------------------------------------------- templates (lines 13-45)
SQLITE_INSERT_FORMAT ==
  "\n    INSERT INTO <table> (<column1>, <column2>, ...)\n    VALUES (:<column1_source>, :<column2_source>, ...)\n"

\* r":(\w+)" as its regular-expression tokens: the literal ':' and a group
\* holding one or more word characters.
SQLITE_VALUES_FORMAT == <<":", "(", "\\w+", ")">>

POSTGRES_INSERT_FORMAT ==
  "\n    INSERT INTO <table> (<column1>, <column2>, ...)\n    VALUES (%(<column1_source>)s, %(<column2_source>)s, ...)\n"

\* r"%\((\w+)\)s" as its tokens: '%', an escaped '(', the group, an escaped
\* ')', and the literal 's'.
POSTGRES_VALUES_FORMAT == <<"%", "\\(", "(", "\\w+", ")", "\\)", "s">>

\* The source's last line ends with an emoji before the ')', left out here.
POSTGRES_COPY_FORMAT ==
  "\n    COPY <table> (<column1_source>, <column2_source>, ...)\n(FROM is not necessary, this is taken care of for you)\n"

RETRIEVE_FORMAT ==
  "\n    SELECT id as <table>_id, <column1> as <alias1>, <column2> FROM <table>\n"

COMPARE_FORMAT ==
  "\n    SELECT \n        <table>.<column> as <alias>,\n        <table>.<column>,\n        <column>,\n        ...\n    FROM <table>\n        JOIN <other_table> ON <other_table>.<table>_id = <table>.id\n        JOIN ...\n    ...\n"

NO_COPY_FORMAT == "COPY not available for this cursor."

\* --------------------------------------------- descriptors (lines 48-85)
\* The dataclass SQLFormat: four fields given by the caller, two defaulted.
SQLFormat(insert_format, values_pattern, copy_available, copy_format) ==
  [insert_format |-> insert_format,
   values_pattern |-> values_pattern,
   copy_available |-> copy_available,
   copy_format |-> copy_format,
   retrieve_format |-> RETRIEVE_FORMAT,
   compare_format |-> COMPARE_FORMAT]

SQLiteFormat ==
  SQLFormat(SQLITE_INSERT_FORMAT, SQLITE_VALUES_FORMAT, FALSE, NO_COPY_FORMAT)

PostgresFormat ==
  SQLFormat(POSTGRES_INSERT_FORMAT, POSTGRES_VALUES_FORMAT, TRUE,
            POSTGRES_COPY_FORMAT)

\* ------------------------------------------ get_sql_format (lines 88-110)
SqliteCursorType == "sqlite3.Cursor"
PsycopgCursorType == "psycopg.Cursor"

\* The runtime types a caller can hand to get_sql_format: the two of the
\* Cursor union, and two that are neither.
HandleTypes ==
  {SqliteCursorType, PsycopgCursorType, "psycopg.AsyncCursor", "NoneType"}

\* isinstance(cursor, cls) on a handle, which is known by its runtime type.
IsInstance(cursor, cls) == cursor = cls

\* A mutation of get_sql_format: the two isinstance tests exchanged.
get_sql_format_swapped(cursor) ==
  IF IsInstance(cursor, PsycopgCursorType) THEN SQLiteFormat
  ELSE IF IsInstance(cursor, SqliteCursorType) THEN PostgresFormat
  ELSE None

get_sql_format(cursor) ==
  IF IsInstance(cursor, SqliteCursorType) THEN SQLiteFormat
  ELSE IF IsInstance(cursor, PsycopgCursorType) THEN PostgresFormat
  ELSE None

\* ---------------------------------------- what a values_pattern matches
\* The characters of the markers tried against the patterns.
WordChars == {"n", "a", "m", "e", "_", "1"}

\* re.fullmatch(pattern, s) for a pattern of the tokens above: a group
\* parenthesis matches nothing, "\\w+" one or more word characters, an
\* escaped parenthesis that parenthesis, anything else itself.
RECURSIVE FullMatch(_, _)
FullMatch(pattern, s) ==
  IF pattern = <<>> THEN s = <<>>
  ELSE LET tok == Head(pattern)
           rest == Tail(pattern)
       IN  IF tok \in {"(", ")"} THEN FullMatch(rest, s)
           ELSE IF tok = "\\w+"
             THEN \E k \in 1..Len(s) :
                    /\ \A i \in 1..k : s[i] \in WordChars
                    /\ FullMatch(rest, SubSeq(s, k + 1, Len(s)))
           ELSE IF tok = "\\(" THEN s # <<>> /\ Head(s) = "(" /\ FullMatch(rest, Tail(s))
           ELSE IF tok = "\\)" THEN s # <<>> /\ Head(s) = ")" /\ FullMatch(rest, Tail(s))
           ELSE s # <<>> /\ Head(s) = tok /\ FullMatch(rest, Tail(s))

\* ------------------------------------------------------------------ state
VARIABLES
  config,      \* the keys of the mapping dotenv_values(".env") produced
  obj,         \* obj[w]: the class of wrapper w, "none" before construction,
               \*         "failed" when its constructor raised
  initError,   \* initError[w]: what the constructor of w raised, or None
  connects,    \* connects[w]: connect calls made by the constructor of w
  path,        \* path[w]: the db argument SQLiteCursor was constructed with
  db,          \* db[w]: the database the connection of w was opened on
  connection,  \* connection[w]: "none", "open" or "closed"
  active,      \* active[w]: __enter__ returned a cursor and the scope has
               \*            not been exited yet
  lastExit,    \* lastExit[w]: the last __exit__ call on w, or None: the
               \*   exception it was given, the connection's state before
               \*   it, whether it ended a scope, the calls it issued on
               \*   self.connection, whether its commit saved a written
               \*   row, and the error its caller observed
  pending,     \* pending[w]: the open transaction of w holds a written row
  committed,   \* committed[s]: the writers whose rows store s holds
  handles,     \* the handles given to get_sql_format, one call each
  formats      \* what get_sql_format returned for them so far

vars == <<config, obj, initError, connects, path, db, connection,
          active, lastExit, pending, committed, handles, formats>>

wrapperVars == <<obj, initError, connects, path, db, connection,
                 active, lastExit, pending, committed>>

\* ---------------------------------------------------------------- errors
Error(name) == [exc |-> name]
KeyError(key) == [exc |-> "KeyError", key |-> key]
\* What a statement of the scope's body can raise.
BodyErrors == {Error("ValueError")}
\* What commit or rollback raises when the backend cannot carry it out.
BackendError == Error("OperationalError")
\* What a call on a closed connection raises: sqlite3 raises
\* ProgrammingError, psycopg raises OperationalError.
ClosedError(class) ==
  IF class = "SQLiteCursor" THEN Error("ProgrammingError")
  ELSE Error("OperationalError")

\* ---------------------------------------------------------------- stores
DbFile == [file |-> "etl.db"]
Memory == [file |-> ":memory:"]
ServerDb == [file |-> "dbname=DB"]

\* The store behind a connection: sqlite3.connect(":memory:") gives every
\* connection a store of its own; a file, or the server's database, is one
\* store for all the connections opened on it.
StoreOf(w, database) ==
  IF database = Memory THEN [name |-> database.file, owner |-> w]
  ELSE [name |-> database.file, owner |-> 0]

Stores ==
  {StoreOf(w, Memory) : w \in W} \cup {StoreOf(0, DbFile), StoreOf(0, ServerDb)}

Store(w) == StoreOf(w, db[w])

\* The writers whose rows a query on the connection of w returns.
Visible(w) ==
  IF connection[w] = "open"
  THEN committed[Store(w)] \cup (IF pending[w] THEN {w} ELSE {})
  ELSE {}

Constructed(w) == obj[w] \in {"SQLiteCursor", "PostgresCursor"}

\* The values the state takes.
TypeOK ==
  /\ config \subseteq {"HOST", "PORT", "DB", "USER", "PASSWORD"}
  /\ obj \in [W -> {"none", "failed", "SQLiteCursor", "PostgresCursor"}]
  /\ connects \in [W -> {0, 1}]
  /\ \A w \in W : path[w] \in {None, DbFile}
  /\ \A w \in W : db[w] \in {None, Memory, DbFile, ServerDb}
  /\ connection \in [W -> {"none", "open", "closed"}]
  /\ active \in [W -> BOOLEAN]
  /\ pending \in [W -> BOOLEAN]
  /\ committed \in [Stores -> SUBSET W]
  /\ \A w \in W :
       lastExit[w] # None =>
         /\ lastExit[w].before \in {"open", "closed"}
         /\ lastExit[w].scoped \in BOOLEAN
         /\ lastExit[w].saved \in BOOLEAN
         /\ Len(lastExit[w].issued) \in {1, 2}
  /\ Len(formats) <= Len(handles)
  /\ \A i \in DOMAIN handles : handles[i] \in HandleTypes

InitWrappers ==
  /\ obj = [w \in W |-> "none"]
  /\ initError = [w \in W |-> None]
  /\ connects = [w \in W |-> 0]
  /\ path = [w \in W |-> None]
  /\ db = [w \in W |-> None]
  /\ connection = [w \in W |-> "none"]
  /\ active = [w \in W |-> FALSE]
  /\ lastExit = [w \in W |-> None]
  /\ pending = [w \in W |-> FALSE]
  /\ committed = [s \in Stores |-> {}]

\* --------------------------------------- SQLiteCursor.__init__ (137-147)
\* A mutation of DefaultDb: no path selects a fixed file.
DefaultDbFile(d) == IF d = None THEN DbFile ELSE d

\* db = ":memory:" if db is None else db
DefaultDb(d) == IF d = None THEN Memory ELSE d

\* A mutation of ConnectionAfterInit: nothing is connected in __init__.
ConnectionLazy == "none"

\* The state of self.connection when a constructor returns.
ConnectionAfterInit == "open"

SQLiteInit(w, d) ==
  /\ obj[w] = "none"
  /\ obj' = [obj EXCEPT ![w] = "SQLiteCursor"]
  /\ path' = [path EXCEPT ![w] = d]
  /\ db' = [db EXCEPT ![w] = DefaultDb(d)]
  /\ connects' = [connects EXCEPT ![w] = @ + 1]
  /\ connection' = [connection EXCEPT ![w] = ConnectionAfterInit]
  /\ UNCHANGED <<config, initError, active, lastExit, pending,
                 committed, handles, formats>>

\* ------------------------------------- PostgresCursor.__init__ (199-208)
Keys == {"HOST", "PORT", "DB", "USER", "PASSWORD"}

\* A mutation of RequiredKeys: the password is read with a default.
RequiredKeysNoPassword == <<"HOST", "PORT", "DB", "USER">>

\* The keys the constructor looks up in config, in the order of its lines.
RequiredKeys == <<"HOST", "PORT", "DB", "USER", "PASSWORD">>

\* The lookups of the constructor that find no key, in order.
MissingKeys == SelectSeq(RequiredKeys, LAMBDA k : k \notin config)

\* The constructor raises KeyError at its first lookup of an absent key and
\* reaches psycopg.connect only past all five; connect returns a connection
\* or raises OperationalError (reachable says which).
PostgresInit(w, reachable) ==
  /\ obj[w] = "none"
  /\ IF MissingKeys # <<>>
     THEN /\ obj' = [obj EXCEPT ![w] = "failed"]
          /\ initError' = [initError EXCEPT ![w] = KeyError(Head(MissingKeys))]
          /\ UNCHANGED <<connects, db, connection>>
     ELSE /\ connects' = [connects EXCEPT ![w] = @ + 1]
          /\ IF reachable
             THEN /\ obj' = [obj EXCEPT ![w] = "PostgresCursor"]
                  /\ db' = [db EXCEPT ![w] = ServerDb]
                  /\ connection' = [connection EXCEPT ![w] = ConnectionAfterInit]
                  /\ UNCHANGED initError
             ELSE /\ obj' = [obj EXCEPT ![w] = "failed"]
                  /\ initError' = [initError EXCEPT ![w] = BackendError]
                  /\ UNCHANGED <<db, connection>>
  /\ UNCHANGED <<config, path, active, lastExit, pending, committed,
                 handles, formats>>

\* ----------------------------------------- __enter__ (149-157, 210-218)
\* return self.connection.cursor(): a cursor of the open connection, or the
\* error cursor() raises on a closed one, which hands the caller nothing.
Enter(w) ==
  /\ Constructed(w)
  /\ active' = [active EXCEPT ![w] = @ \/ connection[w] = "open"]
  /\ UNCHANGED <<config, obj, initError, connects, path, db, connection,
                 lastExit, pending, committed, handles, formats>>

\* The type of the cursor __enter__ returns.
CursorType(w) ==
  IF obj[w] = "SQLiteCursor" THEN SqliteCursorType ELSE PsycopgCursorType

\* A statement of the scope's body writing a row through the cursor. SQLite
\* lets one connection at a time write to a file.
Execute(w) ==
  /\ active[w]
  /\ connection[w] = "open"
  /\ ~pending[w]
  /\ obj[w] = "SQLiteCursor" =>
       \A v \in W \ {w} : ~(connection[v] = "open" /\ Store(v) = Store(w) /\ pending[v])
  /\ pending' = [pending EXCEPT ![w] = TRUE]
  /\ UNCHANGED <<config, obj, initError, connects, path, db, connection,
                 active, lastExit, committed, handles, formats>>

\* ------------------------------------------ __exit__ (159-180, 220-241)
\* if exception: rollback() else: commit()
FirstCall(exception) == IF exception # None THEN "rollback" ELSE "commit"

\* A mutation of ExitCalls: close() in a finally clause.
ExitCallsFinally(exception, raises) == <<FirstCall(exception), "close">>

\* The calls one __exit__ issues on self.connection: commit or rollback, and
\* close() once that call has returned; when it raises, __exit__ ends there.
ExitCalls(exception, raises) ==
  IF raises THEN <<FirstCall(exception)>> ELSE <<FirstCall(exception), "close">>

\* What the caller of the with statement observes: the error raised inside
\* __exit__ if there is one, else the scope's own error, which the None
\* that __exit__ returns lets through, else nothing.
Observed(exception, raisedInExit) ==
  IF raisedInExit # None THEN raisedInExit ELSE exception

\* __exit__(exception, ...) on wrapper w; backendOk says whether the backend
\* can carry out the commit or rollback of an open connection.
Exit(w, exception, backendOk) ==
  /\ Constructed(w)
  /\ LET closed == connection[w] # "open"
         raises == closed \/ ~backendOk
         error == IF closed THEN ClosedError(obj[w])
                  ELSE IF ~backendOk THEN BackendError ELSE None
         issued == ExitCalls(exception, raises)
         saved == ~raises /\ issued[1] = "commit" /\ pending[w]
         closes == \E i \in DOMAIN issued : issued[i] = "close"
         kept == IF saved THEN committed[Store(w)] \cup {w}
                 ELSE committed[Store(w)]
     IN  /\ connection' = [connection EXCEPT ![w] =
                             IF closes THEN "closed" ELSE @]
         /\ pending' = [pending EXCEPT ![w] = IF raises THEN @ ELSE FALSE]
         /\ committed' = [committed EXCEPT ![Store(w)] =
                            IF closes /\ db[w] = Memory THEN {} ELSE kept]
         /\ lastExit' = [lastExit EXCEPT ![w] =
                           [exception |-> exception,
                            before |-> connection[w],
                            scoped |-> active[w],
                            issued |-> issued,
                            saved |-> saved,
                            observed |-> Observed(exception, error)]]
  /\ active' = [active EXCEPT ![w] = FALSE]
  /\ UNCHANGED <<config, obj, initError, connects, path, db, handles, formats>>

\* -------------------------------------------- a call of get_sql_format
GetSqlFormat ==
  /\ Len(formats) < Len(handles)
  /\ formats' = Append(formats, get_sql_format(handles[Len(formats) + 1]))
  /\ UNCHANGED <<config, handles>>
  /\ UNCHANGED wrapperVars

\* -------------------------------------------------------- specifications
RECURSIVE SeqsUpTo(_, _)
SeqsUpTo(S, n) ==
  IF n = 0 THEN {<<>>}
  ELSE LET shorter == SeqsUpTo(S, n - 1)
       IN  shorter \cup {Append(q, x) : q \in shorter, x \in S}

\* The wrappers, loaded from a complete .env.
Init ==
  /\ config = Keys
  /\ InitWrappers
  /\ handles = <<>>
  /\ formats = <<>>

Next ==
  \/ \E w \in W, d \in {None, DbFile} : SQLiteInit(w, d)
  \/ \E w \in W, reachable \in BOOLEAN : PostgresInit(w, reachable)
  \/ \E w \in W : Enter(w)
  \/ \E w \in W : Execute(w)
  \/ \E w \in W, e \in {None} \cup BodyErrors, ok \in BOOLEAN : Exit(w, e, ok)

Spec == Init /\ [][Next]_vars

\* The constructor of PostgresCursor under every .env there can be.
InitConfig ==
  /\ config \in SUBSET Keys
  /\ InitWrappers
  /\ handles = <<>>
  /\ formats = <<>>

NextConfig == \E w \in W, reachable \in BOOLEAN : PostgresInit(w, reachable)

SpecConfig == InitConfig /\ [][NextConfig]_vars

\* get_sql_format called on each of a run of handles.
InitFormat ==
  /\ config = Keys
  /\ InitWrappers
  /\ handles \in SeqsUpTo(HandleTypes, MaxHandles)
  /\ formats = <<>>

NextFormat == GetSqlFormat

SpecFormat == InitFormat /\ [][NextFormat]_vars

\* ----------------------------------------------------------------- claims
Exited(w) == lastExit[w] # None

\* C1: a scope exited with no exception issues exactly commit and then
\* close on the connection, and no rollback.
C1_CleanScopeCommitsThenCloses ==
  \A w \in W :
    (Exited(w) /\ lastExit[w].scoped /\ lastExit[w].exception = None)
      => lastExit[w].issued = <<"commit", "close">>

\* C2: a scope in which an error was raised issues exactly rollback and then
\* close, no commit, and its caller observes that same error.
C2_FailedScopeRollsBackThenCloses ==
  \A w \in W :
    (Exited(w) /\ lastExit[w].scoped /\ lastExit[w].exception # None)
      => /\ lastExit[w].issued = <<"rollback", "close">>
         /\ lastExit[w].observed = lastExit[w].exception

\* C3: for a handle of neither cursor type get_sql_format does not return
\* None (it signals an error instead).
C3_UnsupportedHandleNeverNone ==
  \A i \in DOMAIN formats :
    handles[i] \notin {SqliteCursorType, PsycopgCursorType}
      => formats[i] # None

\* The markers of the two dialects, for the name "name".
SqliteMarker == <<":", "n", "a", "m", "e">>
PostgresMarker == <<"%", "(", "n", "a", "m", "e", ")", "s">>

\* C4: a sqlite3 cursor resolves to the descriptor without COPY whose
\* pattern matches :name, a psycopg cursor to the one with COPY whose
\* pattern matches %(name)s; both carry the same retrieve and compare
\* templates, and equal handle types give equal descriptors.
C4_SupportedHandleDescriptor ==
  \A i \in DOMAIN formats :
    /\ handles[i] = SqliteCursorType =>
         /\ formats[i].copy_available = FALSE
         /\ formats[i].copy_format = "COPY not available for this cursor."
         /\ formats[i].insert_format = SQLITE_INSERT_FORMAT
         /\ FullMatch(formats[i].values_pattern, SqliteMarker)
         /\ ~FullMatch(formats[i].values_pattern, PostgresMarker)
    /\ handles[i] = PsycopgCursorType =>
         /\ formats[i].copy_available = TRUE
         /\ formats[i].copy_format = POSTGRES_COPY_FORMAT
         /\ formats[i].insert_format = POSTGRES_INSERT_FORMAT
         /\ FullMatch(formats[i].values_pattern, PostgresMarker)
         /\ ~FullMatch(formats[i].values_pattern, SqliteMarker)
    /\ handles[i] \in {SqliteCursorType, PsycopgCursorType} =>
         /\ formats[i].retrieve_format = RETRIEVE_FORMAT
         /\ formats[i].compare_format = COMPARE_FORMAT
    /\ \A j \in DOMAIN formats :
         handles[j] = handles[i] => formats[j] = formats[i]

\* Both kinds of cursor have been resolved in one run.
C4_Witness ==
  \E i, j \in DOMAIN formats :
    /\ handles[i] = SqliteCursorType /\ formats[i] = SQLiteFormat
    /\ handles[j] = PsycopgCursorType /\ formats[j] = PostgresFormat

\* C5: with any required key absent from config, a constructed
\* PostgresCursor has failed with a KeyError for an absent key and no
\* connect call was made.
C5_MissingKeyFailsBeforeConnect ==
  \A w \in W :
    (config # Keys /\ obj[w] # "none")
      => /\ obj[w] = "failed"
         /\ initError[w].exc = "KeyError"
         /\ initError[w].key \in Keys \ config
         /\ connects[w] = 0

\* The constructor has run with only the last key it reads absent.
C5_Witness ==
  \E w \in W :
    /\ config = Keys \ {"PASSWORD"}
    /\ obj[w] = "failed"
    /\ initError[w] = KeyError("PASSWORD")

\* C6: after every exit of a scope the connection has been closed.
C6_EveryExitCloses ==
  \A w \in W :
    (Exited(w) /\ lastExit[w].scoped) => connection[w] = "closed"

\* A wrapper that is constructed and has not been entered or exited.
Unentered(w) == Constructed(w) /\ ~active[w] /\ ~Exited(w)

\* C7 as stated: a wrapper constructed but not yet entered holds no live
\* connection.
C7_UnenteredHoldsNoConnection ==
  \A w \in W : Unentered(w) => connection[w] # "open"

\* C7 amended: the constructor makes the one connect call of a wrapper and
\* the connection is live from construction until an __exit__ call, so a
\* wrapper constructed but not yet entered holds a live connection.
C7_ConnectionLiveFromConstruction ==
  \A w \in W :
    Constructed(w) =>
      /\ connects[w] = 1
      /\ ~Exited(w) => connection[w] = "open"

\* One wrapper is constructed and not yet entered, its connection open;
\* another is in its first scope, still on its one connect call.
C7_Witness ==
  \E w, v \in W :
    /\ Unentered(w) /\ connection[w] = "open"
    /\ active[v] /\ ~Exited(v) /\ connects[v] = 1

\* C8 as stated: once the connection is closed it stays closed, no scope is
\* active on it, and an __exit__ called on it issues no commit, rollback or
\* close.
C8_NothingIssuedAfterClose ==
  \A w \in W :
    /\ connection[w] = "closed" => ~active[w]
    /\ (Exited(w) /\ lastExit[w].before = "closed") =>
         /\ connection[w] = "closed"
         /\ lastExit[w].issued = <<>>

\* C8 amended: a wrapper makes one connect call; once the connection is
\* closed it stays closed, no scope is active on it and nothing is visible
\* through it; an __exit__ called on it issues the one commit or rollback,
\* which the backend rejects with the error the caller observes, saves
\* nothing and issues no close.
C8_ClosingIsTerminal ==
  \A w \in W :
    /\ Constructed(w) => connects[w] = 1
    /\ connection[w] = "closed" => (~active[w] /\ Visible(w) = {})
    /\ (Exited(w) /\ lastExit[w].before = "closed") =>
         /\ connection[w] = "closed"
         /\ lastExit[w].issued = <<FirstCall(lastExit[w].exception)>>
         /\ lastExit[w].observed = ClosedError(obj[w])
         /\ ~lastExit[w].saved

\* __exit__ has been called on a wrapper whose connection was closed.
C8_Witness ==
  \E w \in W :
    /\ Exited(w) /\ lastExit[w].before = "closed"
    /\ connection[w] = "closed"

NoPath(w) == obj[w] = "SQLiteCursor" /\ path[w] = None

C10_EveryExitIssuesOneThenClose ==
  \A w \in W :
    /\ Exited(w) =>
         lastExit[w].issued \in {<<"commit", "close">>, <<"rollback", "close">>}
    /\ (Constructed(w) /\ ~Exited(w)) => connection[w] = "open"

====
